---- MODULE Spec2Model ----
(***************************************************************************)
(* Marketing-Analytics (src/script.js): CSV parsing and validation, the    *)
(* statistics and regression helpers, analyzeData, the upload / reset /    *)
(* history / prediction event handlers and the localStorage history.       *)
(*                                                                         *)
(* JavaScript values are records of one shape, tagged by t:                *)
(*   "num"  a finite number, the exact rational n/d (d > 0, lowest terms)  *)
(*   "nan", "inf", "ninf"  NaN, +Infinity, -Infinity                       *)
(*   "str"  a string s;  "undef"  undefined;  "null"  null                 *)
(* Finite arithmetic is exact (IEEE rounding and the sign of zero are not  *)
(* modelled); NaN and the infinities propagate as in IEEE 754.  Math.sqrt  *)
(* is exact on rational squares and rounded down to 1/SqrtScale otherwise. *)
(***************************************************************************)
EXTENDS Integers, Sequences, FiniteSets, TLC

VARIABLES
    currentData,      \* script.js:363  null or the array of rows
    currentAnalysis,  \* script.js:364  null or the analysis object
    history,          \* localStorage['ironAnalyticsHistory'], parsed
    pending,          \* FileReader reads started and not yet delivered
    errorMessage,     \* #errorMessage: textContent and style.display
    resultsShown,     \* #resultsSection displayed, #uploadSection hidden
    predictInputs,    \* values of #predictTVSpend/#predictRadioSpend/#predictSocialSpend
    prediction,       \* #predictionValue text and #predictionResult display
    dialog,           \* text of the alert() dialog that is open, "" if none
    now,              \* Date.now()
    historyList,      \* #historyList: ids of the entries listed, each with its buttons
    report,           \* the report last handed to the browser for download
    text,             \* pipeline: the CSV text under analysis
    stage,            \* pipeline: "text", "parsed", "validated", "analyzed"
    parsed,           \* pipeline: result of parseCSV
    verdict,          \* pipeline: result of validateData
    summary,          \* pipeline: totals computed by analyzeData
    samples,          \* statistics: the feature series and the target series
    fitted            \* statistics: what the statistical functions return

sysVars == <<currentData, currentAnalysis, history, pending, errorMessage,
             resultsShown, predictInputs, prediction, dialog, now, historyList, report>>
pipeVars == <<text, stage, parsed, verdict, summary>>
statVars == <<samples, fitted>>
vars == <<currentData, currentAnalysis, history, pending, errorMessage,
          resultsShown, predictInputs, prediction, dialog, now, historyList, report,
          text, stage, parsed, verdict, summary, samples, fitted>>

(***************************************************************************)
(* Bounds of the model.                                                    *)
(***************************************************************************)
MaxRows == 3
SqrtScale == 100

(***************************************************************************)
(* JavaScript values.                                                      *)
(***************************************************************************)
RECURSIVE GCD(_, _)
GCD(a, b) == IF b = 0 THEN a ELSE GCD(b, a % b)

AbsInt(n) == IF n < 0 THEN -n ELSE n

Rat(n, d) ==
    LET sn == IF d < 0 THEN -n ELSE n
        sd == AbsInt(d)
        g  == GCD(AbsInt(sn), sd)
    IN  [t |-> "num", n |-> sn \div g, d |-> sd \div g, s |-> ""]

Num(n) == [t |-> "num", n |-> n, d |-> 1, s |-> ""]
NaN == [t |-> "nan", n |-> 0, d |-> 1, s |-> ""]
PosInf == [t |-> "inf", n |-> 0, d |-> 1, s |-> ""]
NegInf == [t |-> "ninf", n |-> 0, d |-> 1, s |-> ""]
Undefined == [t |-> "undef", n |-> 0, d |-> 1, s |-> ""]
Null == [t |-> "null", n |-> 0, d |-> 1, s |-> ""]
Str(s) == [t |-> "str", n |-> 0, d |-> 1, s |-> s]

IsFinite(v) == v.t = "num"
IsNumber(v) == v.t \in {"num", "nan", "inf", "ninf"}
\* sign of a number value: -1, 0, 1 (NaN has none and is never asked)
Sign(v) ==
    CASE v.t = "inf" -> 1
      [] v.t = "ninf" -> -1
      [] v.t = "num" -> IF v.n > 0 THEN 1 ELSE IF v.n < 0 THEN -1 ELSE 0
Infinite(sgn) == IF sgn > 0 THEN PosInf ELSE NegInf

DigitChar == <<"0", "1", "2", "3", "4", "5", "6", "7", "8", "9">>
RECURSIVE ToStr(_)
ToStr(n) ==
    IF n < 0 THEN "-" \o ToStr(-n)
    ELSE IF n < 10 THEN DigitChar[n + 1]
    ELSE ToStr(n \div 10) \o DigitChar[(n % 10) + 1]

(***************************************************************************)
(* The strings the model's CSV cells and input fields are made of, and     *)
(* what String.prototype.trim, Number() and parseFloat() make of them.     *)
(***************************************************************************)
ReadmeNumbers ==
    {5000, 3000, 2000, 15000, 5500, 3200, 2500, 16500, 6000, 3500, 2800,
     17500, 5800, 3100, 2300, 16800, 6200, 3400, 18200}
DecimalInts == (-9 .. 9) \cup {50} \cup ReadmeNumbers
DecimalText == {ToStr(n) : n \in DecimalInts}
DecimalValue == [s \in DecimalText |-> CHOOSE n \in DecimalInts : ToStr(n) = s]

Trim(s) ==
    CASE s = " " -> ""
      [] s = " 4 " -> "4"
      [] s = " TV_Spend " -> "TV_Spend"
      [] OTHER -> s

\* Number(s) for a trimmed string s
StringToNumber(s) ==
    CASE s \in DecimalText -> Num(DecimalValue[s])
      [] s = "" -> Num(0)
      [] s = "Infinity" -> PosInf
      [] s = "-Infinity" -> NegInf
      [] s = "0x10" -> Num(16)
      [] s = "1e2" -> Num(100)
      [] s = "1e999" -> PosInf
      [] OTHER -> NaN

\* parseFloat(s) for a trimmed string s: the longest numeric prefix
ParseFloatString(s) ==
    CASE s \in DecimalText -> Num(DecimalValue[s])
      [] s = "Infinity" -> PosInf
      [] s = "-Infinity" -> NegInf
      [] s = "0x10" -> Num(0)
      [] s = "1e2" -> Num(100)
      [] s = "1e999" -> PosInf
      [] s = "7abc" -> Num(7)
      [] OTHER -> NaN

\* ToNumber of any value
ToNumber(v) ==
    CASE IsNumber(v) -> v
      [] v.t = "str" -> StringToNumber(Trim(v.s))
      [] v.t = "null" -> Num(0)
      [] v.t = "undef" -> NaN

\* the global isNaN(v)
JSisNaN(v) == ToNumber(v).t = "nan"

\* parseFloat(v): the argument is converted to a string first
JSparseFloat(v) ==
    CASE v.t = "str" -> ParseFloatString(Trim(v.s))
      [] v.t = "inf" -> PosInf
      [] v.t = "ninf" -> NegInf
      [] v.t = "num" /\ v.d = 1 -> v
      [] OTHER -> NaN

\* String(v), as a template literal interpolates it
JSString(v) ==
    CASE v.t = "str" -> v.s
      [] v.t = "nan" -> "NaN"
      [] v.t = "inf" -> "Infinity"
      [] v.t = "ninf" -> "-Infinity"
      [] v.t = "undef" -> "undefined"
      [] v.t = "null" -> "null"
      [] v.t = "num" /\ v.d = 1 -> ToStr(v.n)

(***************************************************************************)
(* Arithmetic on number values (operands are converted with ToNumber).     *)
(***************************************************************************)
Neg(a) ==
    CASE a.t = "num" -> Rat(-a.n, a.d)
      [] a.t = "inf" -> NegInf
      [] a.t = "ninf" -> PosInf
      [] OTHER -> NaN

AddN(a, b) ==
    CASE a.t = "nan" \/ b.t = "nan" -> NaN
      [] a.t = "num" /\ b.t = "num" ->
            LET g == GCD(a.d, b.d)
            IN  Rat(a.n * (b.d \div g) + b.n * (a.d \div g), (a.d \div g) * b.d)
      [] a.t = "num" -> b
      [] b.t = "num" -> a
      [] a.t = b.t -> a
      [] OTHER -> NaN

MulN(a, b) ==
    CASE a.t = "nan" \/ b.t = "nan" -> NaN
      [] a.t = "num" /\ b.t = "num" ->
            LET g1 == GCD(AbsInt(a.n), b.d)
                g2 == GCD(AbsInt(b.n), a.d)
            IN  Rat((a.n \div g1) * (b.n \div g2), (a.d \div g2) * (b.d \div g1))
      [] Sign(a) = 0 \/ Sign(b) = 0 -> NaN
      [] OTHER -> Infinite(Sign(a) * Sign(b))

DivN(a, b) ==
    CASE a.t = "nan" \/ b.t = "nan" -> NaN
      [] a.t = "num" /\ b.t = "num" ->
            IF b.n # 0
            THEN LET g1 == GCD(AbsInt(a.n), AbsInt(b.n))
                     g2 == GCD(a.d, b.d)
                 IN  Rat((a.n \div g1) * (b.d \div g2), (a.d \div g2) * (b.n \div g1))
            ELSE IF a.n = 0 THEN NaN ELSE Infinite(Sign(a))
      [] a.t = "num" -> Num(0)
      [] b.t = "num" -> Infinite(Sign(a) * (IF Sign(b) < 0 THEN -1 ELSE 1))
      [] OTHER -> NaN

Add(a, b) == AddN(ToNumber(a), ToNumber(b))
Sub(a, b) == AddN(ToNumber(a), Neg(ToNumber(b)))
Mul(a, b) == MulN(ToNumber(a), ToNumber(b))
Div(a, b) == DivN(ToNumber(a), ToNumber(b))

\* a > b, a < b, a === b on number values (any comparison with NaN is false)
Gt(a, b) ==
    /\ a.t # "nan" /\ b.t # "nan"
    /\ CASE a.t = "num" /\ b.t = "num" -> AddN(a, Neg(b)).n > 0
         [] a.t = b.t -> FALSE
         [] a.t = "inf" \/ b.t = "ninf" -> TRUE
         [] OTHER -> FALSE
Lt(a, b) == Gt(b, a)
StrictEq(a, b) == a.t # "nan" /\ a = b

MathAbs(a) == IF a.t \in {"inf", "ninf"} THEN PosInf
              ELSE IF a.t = "num" THEN Rat(AbsInt(a.n), a.d) ELSE NaN

\* Math.max(a, b): NaN if either is NaN
MathMax(a, b) ==
    LET x == ToNumber(a)
        y == ToNumber(b)
    IN  IF x.t = "nan" \/ y.t = "nan" THEN NaN
        ELSE IF Gt(y, x) THEN y ELSE x

RECURSIVE Newton(_, _)
Newton(x, r) ==
    LET r2 == (r + x \div r) \div 2
    IN  IF r2 >= r THEN r ELSE Newton(x, r2)
ISqrt(x) == IF x = 0 THEN 0 ELSE Newton(x, x)

MathSqrt(a) ==
    CASE a.t = "nan" \/ a.t = "ninf" -> NaN
      [] a.t = "inf" -> PosInf
      [] a.t = "num" ->
            IF a.n < 0 THEN NaN
            ELSE LET e == ISqrt(a.n * a.d)
                 IN  IF e * e = a.n * a.d THEN Rat(e, a.d)
                     ELSE Rat(ISqrt(a.n * a.d * SqrtScale * SqrtScale),
                              a.d * SqrtScale)

\* Number.prototype.toFixed(2), as the number its text denotes
ToFixed2(a) ==
    IF a.t # "num" THEN a
    ELSE LET q == 2 * AbsInt(a.n) * 100
             r == (q + a.d) \div (2 * a.d)
         IN  Rat((IF a.n < 0 THEN -r ELSE r), 100)

(***************************************************************************)
(* CSV text.  A text is the sequence of its lines (split on '\n'), a line  *)
(* the sequence of its cells (split on ','): the cells hold neither.       *)
(***************************************************************************)
Range(seq) == {seq[j] : j \in 1 .. Len(seq)}
Includes(seq, x) == x \in Range(seq)
Get(obj, key) == IF key \in DOMAIN obj THEN obj[key] ELSE Undefined

\* line.trim() === ''
IsBlankLine(line) == Len(line) = 1 /\ Trim(line[1]) = ""

RECURSIVE DropBlankHead(_)
DropBlankHead(ls) ==
    IF ls = <<>> THEN <<>>
    ELSE IF IsBlankLine(Head(ls)) THEN DropBlankHead(Tail(ls)) ELSE ls

RECURSIVE DropBlankTail(_)
DropBlankTail(ls) ==
    IF ls = <<>> THEN <<>>
    ELSE IF IsBlankLine(ls[Len(ls)]) THEN DropBlankTail(SubSeq(ls, 1, Len(ls) - 1))
    ELSE ls

\* text.trim().split('\n'): leading and trailing blank lines go, and an
\* all-blank text leaves the one line ''
TrimSplit(txt) ==
    LET core == DropBlankTail(DropBlankHead(txt))
    IN  IF core = <<>> THEN << <<"">> >> ELSE core

\* lines[0].split(',').map(h => h.trim())
ParseHeaders(line) == [j \in 1 .. Len(line) |-> Trim(line[j])]

\* isNaN(values[index]) ? values[index] : parseFloat(values[index])
ParseCell(values, index) ==
    LET value == IF index > Len(values) THEN Undefined ELSE Str(values[index])
    IN  IF JSisNaN(value) THEN value ELSE JSparseFloat(value)

\* headers.forEach((header, index) => row[header] = ...): a repeated header
\* keeps the value of its last position
LastIndex(headers, h) ==
    CHOOSE j \in 1 .. Len(headers) :
        headers[j] = h /\ \A k \in (j + 1) .. Len(headers) : headers[k] # h

ParseRow(headers, line) ==
    LET values == [j \in 1 .. Len(line) |-> Trim(line[j])]
    IN  [h \in Range(headers) |-> ParseCell(values, LastIndex(headers, h))]

\* mutant: the loop ends at the first blank line instead of skipping it
RECURSIVE ParseLoop_Break(_, _, _)
ParseLoop_Break(headers, lines, i) ==
    IF i > Len(lines) THEN <<>>
    ELSE IF IsBlankLine(lines[i]) THEN <<>>
    ELSE <<ParseRow(headers, lines[i])>> \o ParseLoop_Break(headers, lines, i + 1)

RECURSIVE ParseLoop(_, _, _)
ParseLoop(headers, lines, i) ==
    IF i > Len(lines) THEN <<>>
    ELSE IF IsBlankLine(lines[i]) THEN ParseLoop(headers, lines, i + 1)
    ELSE <<ParseRow(headers, lines[i])>> \o ParseLoop(headers, lines, i + 1)

parseCSV(txt) ==
    LET lines == TrimSplit(txt)
        headers == ParseHeaders(lines[1])
    IN  [headers |-> headers, data |-> ParseLoop(headers, lines, 2)]

(***************************************************************************)
(* Validation.  The result is what the call does: return, or throw an      *)
(* Error with a message.                                                   *)
(***************************************************************************)
requiredColumns ==
    <<"Month", "TV_Spend", "Radio_Spend", "SocialMedia_Spend", "Sales_Revenue">>
numericColumns == <<"TV_Spend", "Radio_Spend", "SocialMedia_Spend", "Sales_Revenue">>

Returned == [threw |-> FALSE, message |-> ""]
Thrown(msg) == [threw |-> TRUE, message |-> msg]

RECURSIVE Join(_, _)
Join(seq, sep) ==
    IF seq = <<>> THEN ""
    ELSE IF Len(seq) = 1 THEN seq[1]
    ELSE seq[1] \o sep \o Join(Tail(seq), sep)

\* mutant: only the first absent column is reported
missingColumns_FirstOnly(headers) ==
    LET all == SelectSeq(requiredColumns, LAMBDA col : ~Includes(headers, col))
    IN  IF all = <<>> THEN <<>> ELSE <<all[1]>>

missingColumns(headers) ==
    SelectSeq(requiredColumns, LAMBDA col : ~Includes(headers, col))

\* isNaN(row[col]) || row[col] === '' || row[col] === null
InvalidNumeric(v) == JSisNaN(v) \/ v = Str("") \/ v = Null

\* the nested for-of loops: <<row, column>> of the first cell that throws,
\* <<0, 0>> when the loops run to their end
RECURSIVE FirstInvalid(_, _, _)
FirstInvalid(data, i, j) ==
    IF i > Len(data) THEN <<0, 0>>
    ELSE IF j > Len(numericColumns) THEN FirstInvalid(data, i + 1, 1)
    ELSE IF InvalidNumeric(Get(data[i], numericColumns[j])) THEN <<i, j>>
    ELSE FirstInvalid(data, i, j + 1)

MinimumRows == 3

\* mutant: the row count is checked before the required columns
validateData_RowsFirst(headers, data) ==
    LET missing == missingColumns(headers)
    IN  IF Len(data) < MinimumRows
        THEN Thrown("Minimum 3 rows of data required for analysis")
        ELSE IF Len(missing) > 0
        THEN Thrown("Missing required columns: " \o Join(missing, ", "))
        ELSE LET f == FirstInvalid(data, 1, 1)
             IN  IF f # <<0, 0>>
                 THEN Thrown("Invalid numeric value in " \o numericColumns[f[2]]
                             \o ": " \o JSString(Get(data[f[1]], numericColumns[f[2]])))
                 ELSE Returned

validateData(headers, data) ==
    LET missing == missingColumns(headers)
    IN  IF Len(missing) > 0
        THEN Thrown("Missing required columns: " \o Join(missing, ", "))
        ELSE IF Len(data) < MinimumRows
        THEN Thrown("Minimum 3 rows of data required for analysis")
        ELSE LET f == FirstInvalid(data, 1, 1)
             IN  IF f # <<0, 0>>
                 THEN Thrown("Invalid numeric value in " \o numericColumns[f[2]]
                             \o ": " \o JSString(Get(data[f[1]], numericColumns[f[2]])))
                 ELSE Returned

(***************************************************************************)
(* Statistics.                                                             *)
(***************************************************************************)
\* values.reduce((a, b) => a + b, 0); the series summed here hold numbers
\* (or, once reloaded from the history, null), never strings
\* mutant: the fold stops one element early
RECURSIVE Reduce_OffByOne(_, _, _)
Reduce_OffByOne(values, i, acc) ==
    IF i >= Len(values) THEN acc
    ELSE Reduce_OffByOne(values, i + 1, Add(acc, values[i]))

RECURSIVE Reduce(_, _, _)
Reduce(values, i, acc) ==
    IF i > Len(values) THEN acc ELSE Reduce(values, i + 1, Add(acc, values[i]))
SumOf(values) == Reduce(values, 1, Num(0))

calculateMean(values) == Div(SumOf(values), Num(Len(values)))

\* Each function below is split at its const and let declarations: the
\* value of a declaration is handed on as an argument to the operator that
\* models the statements after it.

\* dx = x[i] - meanX, for every i of the loop
Deviations(values, mean) == [i \in 1 .. Len(values) |-> Sub(values[i], mean)]
\* the sum a loop accumulates with += dx * dy
SumOfProducts(dx, dy) == SumOf([i \in 1 .. Len(dx) |-> Mul(dx[i], dy[i])])
\* denominator === 0 ? 0 : numerator / denominator
RatioOrZero(numerator, denominator) ==
    IF StrictEq(denominator, Num(0)) THEN Num(0) ELSE Div(numerator, denominator)

CorrelationOfSums(numerator, denomX, denomY) ==
    RatioOrZero(numerator, MathSqrt(Mul(denomX, denomY)))
CorrelationOfDeviations(dx, dy) ==
    CorrelationOfSums(SumOfProducts(dx, dy), SumOfProducts(dx, dx), SumOfProducts(dy, dy))
calculateCorrelation(x, y) ==
    CorrelationOfDeviations(Deviations(x, calculateMean(x)), Deviations(y, calculateMean(y)))

RegressionOfSlope(slope, meanX, meanY) ==
    [slope |-> slope, intercept |-> Sub(meanY, Mul(slope, meanX))]
RegressionOfDeviations(dx, dy, meanX, meanY) ==
    RegressionOfSlope(RatioOrZero(SumOfProducts(dx, dy), SumOfProducts(dx, dx)),
                      meanX, meanY)
RegressionOfMeans(x, y, meanX, meanY) ==
    RegressionOfDeviations(Deviations(x, meanX), Deviations(y, meanY), meanX, meanY)
linearRegression(x, y) == RegressionOfMeans(x, y, calculateMean(x), calculateMean(y))

\* the object pushed onto coefficients
Coefficient(regression, correlation) ==
    [slope |-> regression.slope,
     correlation |-> correlation,
     weight |-> MathAbs(correlation)]
\* coefficients.forEach(c => c.normalizedWeight = ...)
Normalize(c, totalWeight) ==
    [slope |-> c.slope,
     correlation |-> c.correlation,
     weight |-> c.weight,
     normalizedWeight |->
         IF Gt(totalWeight, Num(0)) THEN Div(c.weight, totalWeight) ELSE Num(0)]
NormalizeAll(coefficients, totalWeight) ==
    [i \in 1 .. Len(coefficients) |-> Normalize(coefficients[i], totalWeight)]
NormalizeWeights(coefficients) ==
    NormalizeAll(coefficients,
                 SumOf([i \in 1 .. Len(coefficients) |-> coefficients[i].weight]))
multipleLinearRegression(features, target) ==
    NormalizeWeights([i \in 1 .. Len(features) |->
                         Coefficient(linearRegression(features[i], target),
                                     calculateCorrelation(features[i], target))])

(***************************************************************************)
(* analyzeData: the totals (script.js:306-331) and the correlation and     *)
(* regression fields (script.js:332-342) of the object it returns.         *)
(***************************************************************************)
Column(data, col) == [i \in 1 .. Len(data) |-> Get(data[i], col)]

\* mutant: the guard tests totalSpend !== 0
roiOf_NonZero(totalRevenue, totalSpend) ==
    IF ~StrictEq(ToNumber(totalSpend), Num(0))
    THEN Mul(Div(Sub(totalRevenue, totalSpend), totalSpend), Num(100))
    ELSE Num(0)

\* totalSpend > 0 ? ((totalRevenue - totalSpend) / totalSpend * 100) : 0
roiOf(totalRevenue, totalSpend) ==
    IF Gt(totalSpend, Num(0))
    THEN Mul(Div(Sub(totalRevenue, totalSpend), totalSpend), Num(100))
    ELSE Num(0)

analyzeTotals(data) ==
    LET sales == Column(data, "Sales_Revenue")
        tvSpend == Column(data, "TV_Spend")
        radioSpend == Column(data, "Radio_Spend")
        socialSpend == Column(data, "SocialMedia_Spend")
        totalSpend == Add(Add(SumOf(tvSpend), SumOf(radioSpend)), SumOf(socialSpend))
        totalRevenue == SumOf(sales)
        roi == roiOf(totalRevenue, totalSpend)
    IN  [months |-> Column(data, "Month"),
         sales |-> sales,
         tvSpend |-> tvSpend,
         radioSpend |-> radioSpend,
         socialSpend |-> socialSpend,
         totalTVSpend |-> SumOf(tvSpend),
         totalRadioSpend |-> SumOf(radioSpend),
         totalSocialSpend |-> SumOf(socialSpend),
         totalSpend |-> totalSpend,
         totalRevenue |-> totalRevenue,
         roi |-> roi,
         avgROI |-> Div(roi, Num(Len(data)))]

analyzeRegression(data) ==
    LET sales == Column(data, "Sales_Revenue")
        tvSpend == Column(data, "TV_Spend")
        radioSpend == Column(data, "Radio_Spend")
        socialSpend == Column(data, "SocialMedia_Spend")
    IN  [correlations |->
             [tv |-> calculateCorrelation(tvSpend, sales),
              radio |-> calculateCorrelation(radioSpend, sales),
              social |-> calculateCorrelation(socialSpend, sales)],
         regressions |->
             [tv |-> linearRegression(tvSpend, sales),
              radio |-> linearRegression(radioSpend, sales),
              social |-> linearRegression(socialSpend, sales)],
         multipleRegression |->
             multipleLinearRegression(<<tvSpend, radioSpend, socialSpend>>, sales)]

analyzeData(data) == analyzeTotals(data) @@ analyzeRegression(data)

(***************************************************************************)
(* The CSV texts the model feeds to the parser.                            *)
(***************************************************************************)
RECURSIVE SubSeqsOf(_)
SubSeqsOf(seq) ==
    IF seq = <<>> THEN {<<>>}
    ELSE LET rest == SubSeqsOf(Tail(seq))
         IN  rest \cup {<<Head(seq)>> \o r : r \in rest}

\* header lines: every selection of the required columns, in their order
SubHeaderLines == {IF h = <<>> THEN <<"">> ELSE h : h \in SubSeqsOf(requiredColumns)}
ShuffledHeader ==
    <<"Sales_Revenue", " TV_Spend ", "Notes", "Month", "SocialMedia_Spend", "Radio_Spend">>
RepeatedHeader ==
    <<"Month", "TV_Spend", "Radio_Spend", "TV_Spend", "SocialMedia_Spend", "Sales_Revenue">>
LowerCaseHeader ==
    <<"month", "TV_Spend", "Radio_Spend", "SocialMedia_Spend", "Sales_Revenue">>
HeaderLines == SubHeaderLines \cup {ShuffledHeader, RepeatedHeader, LowerCaseHeader}
MainHeaderLines == {requiredColumns, ShuffledHeader, RepeatedHeader}

BlankLine == <<" ">>
RowLines ==
    { <<"Jan", "1", "2", "3", "9">>,
      <<"Feb", "2", "1", "0", "5">>,
      <<"Mar", "-2", "-1", "0", "3">>,
      <<"Apr", "0", "0", "0", "2">>,
      <<"May", "abc", "", "1", "x">>,
      <<"Jun", "1", "", "1", "1">>,
      <<"Jul", "1", "1">>,
      <<"", "1", " 4 ", "0x10", "1e2">>,
      <<"Aug", "1", "Infinity", "1", "1">>,
      <<"Sep", "-Infinity", "1", "1", "1">>,
      BlankLine }
FewRowSeqs ==
    { <<>>,
      << <<"Jan", "1", "2", "3", "9">>, <<"May", "abc", "", "1", "x">> >>,
      << <<"Jan", "1", "2", "3", "9">>, <<"Feb", "2", "1", "0", "5">>,
         <<"Apr", "0", "0", "0", "2">> >>,
      << <<"Jan", "1", "2", "3", "9">>, <<"Jul", "1", "1">>,
         <<"Feb", "2", "1", "0", "5">> >> }
RowSeqs == UNION {[1 .. m -> RowLines] : m \in 0 .. MaxRows}

ReadmeText ==
    << requiredColumns,
       <<"Jan-2023", "5000", "3000", "2000", "15000">>,
       <<"Feb-2023", "5500", "3200", "2500", "16500">>,
       <<"Mar-2023", "6000", "3500", "2800", "17500">>,
       <<"Apr-2023", "5800", "3100", "2300", "16800">>,
       <<"May-2023", "6200", "3400", "3000", "18200">> >>

Texts ==
    {<<h>> \o rows : h \in MainHeaderLines, rows \in RowSeqs}
    \cup {<<h>> \o rows : h \in HeaderLines, rows \in FewRowSeqs}
    \cup {ReadmeText, <<BlankLine>> \o ReadmeText \o <<BlankLine, BlankLine>>,
          <<BlankLine>>, <<BlankLine, BlankLine>>}

(***************************************************************************)
(* The analysis pipeline of reader.onload (script.js:453-456), one call a  *)
(* step, over every text of Texts.  The totals of analyzeData are kept;    *)
(* the regression fields of the README figures exceed TLC's integers.      *)
(***************************************************************************)
SysInit ==
    /\ currentData = Null
    /\ currentAnalysis = Null
    /\ history = <<>>
    /\ pending = <<>>
    /\ errorMessage = [textContent |-> "", displayed |-> FALSE]
    /\ resultsShown = FALSE
    /\ predictInputs = <<"", "", "">>
    /\ prediction = [value |-> Null, displayed |-> FALSE]
    /\ historyList = <<>>
    /\ report = Null
    /\ dialog = ""
    /\ now = 0

PipeIdle ==
    /\ text = <<>>
    /\ stage = "idle"
    /\ parsed = Null
    /\ verdict = Null
    /\ summary = Null

StatIdle ==
    /\ samples = Null
    /\ fitted = Null

PipeInit ==
    /\ SysInit
    /\ StatIdle
    /\ text \in Texts
    /\ stage = "text"
    /\ parsed = Null
    /\ verdict = Null
    /\ summary = Null

ParseStep ==
    /\ stage = "text"
    /\ parsed' = parseCSV(text)
    /\ stage' = "parsed"
    /\ UNCHANGED <<text, verdict, summary>>
    /\ UNCHANGED <<sysVars, statVars>>

ValidateStep ==
    /\ stage = "parsed"
    /\ verdict' = validateData(parsed.headers, parsed.data)
    /\ stage' = "validated"
    /\ UNCHANGED <<text, parsed, summary>>
    /\ UNCHANGED <<sysVars, statVars>>

AnalyzeStep ==
    /\ stage = "validated"
    /\ ~verdict.threw
    /\ summary' = analyzeTotals(parsed.data)
    /\ stage' = "analyzed"
    /\ UNCHANGED <<text, parsed, verdict>>
    /\ UNCHANGED <<sysVars, statVars>>

PipeNext == ParseStep \/ ValidateStep \/ AnalyzeStep

SpecPipeline == PipeInit /\ [][PipeNext]_vars

(***************************************************************************)
(* The history (HistoryManager) and JSON.                                  *)
(***************************************************************************)
maxEntries == 20

\* JSON.parse(JSON.stringify(v)): NaN and the infinities become null, an
\* undefined array element becomes null, an undefined property is dropped
JsonValue(v) == IF v.t \in {"nan", "inf", "ninf", "undef"} THEN Null ELSE v
JsonArray(arr) == [i \in 1 .. Len(arr) |-> JsonValue(arr[i])]
JsonRow(row) ==
    [k \in {key \in DOMAIN row : row[key].t # "undef"} |-> JsonValue(row[k])]
JsonData(data) == [i \in 1 .. Len(data) |-> JsonRow(data[i])]
JsonRegression(r) == [slope |-> JsonValue(r.slope), intercept |-> JsonValue(r.intercept)]
JsonAnalysis(a) ==
    [months |-> JsonArray(a.months),
     sales |-> JsonArray(a.sales),
     tvSpend |-> JsonArray(a.tvSpend),
     radioSpend |-> JsonArray(a.radioSpend),
     socialSpend |-> JsonArray(a.socialSpend),
     totalTVSpend |-> JsonValue(a.totalTVSpend),
     totalRadioSpend |-> JsonValue(a.totalRadioSpend),
     totalSocialSpend |-> JsonValue(a.totalSocialSpend),
     totalSpend |-> JsonValue(a.totalSpend),
     totalRevenue |-> JsonValue(a.totalRevenue),
     roi |-> JsonValue(a.roi),
     avgROI |-> JsonValue(a.avgROI),
     correlations |->
         [tv |-> JsonValue(a.correlations.tv),
          radio |-> JsonValue(a.correlations.radio),
          social |-> JsonValue(a.correlations.social)],
     regressions |->
         [tv |-> JsonRegression(a.regressions.tv),
          radio |-> JsonRegression(a.regressions.radio),
          social |-> JsonRegression(a.regressions.social)],
     multipleRegression |->
         [i \in 1 .. Len(a.multipleRegression) |->
             [slope |-> JsonValue(a.multipleRegression[i].slope),
              correlation |-> JsonValue(a.multipleRegression[i].correlation),
              weight |-> JsonValue(a.multipleRegression[i].weight),
              normalizedWeight |-> JsonValue(a.multipleRegression[i].normalizedWeight)]]]

\* x.toFixed(2) throws a TypeError unless x is a number (null after a reload)
ToFixedThrows(v) == ~IsNumber(v)

\* saveAnalysis throws while it builds the entry, before it stores anything
SaveThrows(analysis) ==
    \/ ToFixedThrows(analysis.totalRevenue)
    \/ ToFixedThrows(analysis.totalSpend)
    \/ ToFixedThrows(analysis.roi)

\* the entry as it is read back from localStorage
NewEntry(data, analysis, t) ==
    [id |-> t,
     fileName |-> IF Len(data) > 0 THEN "Dataset" ELSE "Unknown",
     timestamp |-> t,
     dataPoints |-> Len(data),
     totalRevenue |-> ToFixed2(analysis.totalRevenue),
     totalSpend |-> ToFixed2(analysis.totalSpend),
     roi |-> ToFixed2(analysis.roi),
     data |-> JsonData(data),
     analysis |-> JsonAnalysis(analysis)]

\* a saveAnalysis that never pops
saveAnalysis_NoEviction(h, data, analysis, t) == <<NewEntry(data, analysis, t)>> \o h

\* history.unshift(entry); if (history.length > this.maxEntries) history.pop()
saveAnalysis(h, data, analysis, t) ==
    LET unshifted == <<NewEntry(data, analysis, t)>> \o h
    IN  IF Len(unshifted) > maxEntries
        THEN SubSeq(unshifted, 1, Len(unshifted) - 1)
        ELSE unshifted

\* history.find(entry => entry.id === id)
HasEntry(h, id) == id \in {h[i].id : i \in 1 .. Len(h)}
getEntry(h, id) ==
    h[CHOOSE i \in 1 .. Len(h) : h[i].id = id /\ \A j \in 1 .. (i - 1) : h[j].id # id]

(***************************************************************************)
(* Prediction (predictRevenue).                                            *)
(***************************************************************************)
\* parseFloat(field.value) || 0
SpendAmount(raw) ==
    LET parsedValue == JSparseFloat(Str(raw))
    IN  IF parsedValue.t = "nan" \/ parsedValue = Num(0) THEN Num(0) ELSE parsedValue

\* mutant: the test joins the three comparisons with ||
AllAmountsZero_Any(tv, radio, social) ==
    StrictEq(tv, Num(0)) \/ StrictEq(radio, Num(0)) \/ StrictEq(social, Num(0))

\* tvSpend === 0 && radioSpend === 0 && socialSpend === 0
AllAmountsZero(tv, radio, social) ==
    StrictEq(tv, Num(0)) /\ StrictEq(radio, Num(0)) /\ StrictEq(social, Num(0))

\* mutant: the result is not clamped
predictedRevenueOf_NoClamp(analysis, tv, radio, social) ==
    LET mr == analysis.multipleRegression
        p1 == Add(Num(0), Mul(Mul(mr[1].slope, tv), mr[1].normalizedWeight))
        p2 == Add(p1, Mul(Mul(mr[2].slope, radio), mr[2].normalizedWeight))
        p3 == Add(p2, Mul(Mul(mr[3].slope, social), mr[3].normalizedWeight))
    IN  Add(p3, calculateMean(analysis.sales))

\* script.js:727-740
predictedRevenueOf(analysis, tv, radio, social) ==
    LET mr == analysis.multipleRegression
        baselineRevenue == calculateMean(analysis.sales)
        p1 == Add(Num(0), Mul(Mul(mr[1].slope, tv), mr[1].normalizedWeight))
        p2 == Add(p1, Mul(Mul(mr[2].slope, radio), mr[2].normalizedWeight))
        p3 == Add(p2, Mul(Mul(mr[3].slope, social), mr[3].normalizedWeight))
        p4 == Add(p3, baselineRevenue)
    IN  MathMax(p4, Num(0))

(***************************************************************************)
(* The page: event handlers over the module state.                         *)
(***************************************************************************)
MaxPending == 1
MaxHistory == 2
MaxClock == 1

HeaderRow == requiredColumns
DatasetA ==
    << HeaderRow, <<"Jan", "1", "2", "3", "9">>, <<"Feb", "2", "1", "0", "5">>,
       <<"Mar", "3", "0", "1", "4">> >>
DatasetInf ==
    << HeaderRow, <<"Jan", "1", "2", "3", "9">>, <<"Aug", "1", "Infinity", "1", "1">>,
       <<"Feb", "2", "1", "0", "5">> >>
DatasetBad ==
    << HeaderRow, <<"Jan", "1", "2", "3", "9">>, <<"May", "abc", "", "1", "x">>,
       <<"Feb", "2", "1", "0", "5">> >>
\* a File: whether its name ends with '.csv', and its content
Files ==
    {[csv |-> TRUE, content |-> c] : c \in {DatasetA, DatasetInf, DatasetBad}}
    \cup {[csv |-> FALSE, content |-> DatasetA]}

\* what the user has typed into the three prediction fields
PredictFieldValues ==
    { <<"", "", "">>, <<"0", "abc", "">>, <<"50", "", "">>, <<"", "2", "7abc">> }

NoAmountMessage == "Please enter at least one spending amount"
NotCsvMessage == "Please upload a CSV file"

\* a showError that sets the text and leaves the element's display alone
showError_TextOnly(message) ==
    errorMessage' = [errorMessage EXCEPT !.textContent = message]

\* showError(message)
showError(message) == errorMessage' = [textContent |-> message, displayed |-> TRUE]

RemoveAt(seq, i) == SubSeq(seq, 1, i - 1) \o SubSeq(seq, i + 1, Len(seq))

\* handleFileUpload(file): a non-CSV name is refused at once, otherwise a
\* FileReader is started and its onload comes later
HandleFileUpload(file) ==
    /\ dialog = ""
    /\ IF ~file.csv
       THEN /\ showError(NotCsvMessage)
            /\ UNCHANGED pending
       ELSE /\ Len(pending) < MaxPending
            /\ pending' = Append(pending, file.content)
            /\ UNCHANGED errorMessage
    /\ UNCHANGED <<currentData, currentAnalysis, history, resultsShown,
                   predictInputs, prediction, dialog, now, historyList, report>>
    /\ UNCHANGED <<pipeVars, statVars>>

\* the try block of reader.onload up to the assignments (script.js:453-456):
\* the exception thrown, or the data and the analysis to install
tryValidated(data, v) ==
    IF v.threw
    THEN [threw |-> TRUE, message |-> v.message, data |-> <<>>, analysis |-> Null]
    ELSE [threw |-> FALSE, message |-> "", data |-> data, analysis |-> analyzeData(data)]
tryParsed(csv) == tryValidated(csv.data, validateData(csv.headers, csv.data))
tryAnalyze(content) == tryParsed(parseCSV(content))
\* tryAnalyze, evaluated once for each file content of the model
Analyzed == [c \in {f.content : f \in Files} |-> tryAnalyze(c)]

\* the ids of the entries, in their order
IdsOf(h) == [j \in 1 .. Len(h) |-> h[j].id]
\* updateHistoryUI(), once the history h is stored: every entry is listed
updateHistoryUI(h) == historyList' = IdsOf(h)

\* reader.onload: parse, validate, install, analyse, displayResults (which
\* saves to the history and lists it), hide the error; an exception shows its
\* message.  The model lets a save happen while the history holds fewer than
\* room entries.
ReaderOnloadWithin(i, room) ==
    /\ dialog = ""
    /\ i \in 1 .. Len(pending)
    /\ pending' = RemoveAt(pending, i)
    /\ LET r == Analyzed[pending[i]]
       IN  IF r.threw
           THEN /\ showError(r.message)
                /\ UNCHANGED <<currentData, currentAnalysis, history, resultsShown,
                               historyList>>
           ELSE /\ Len(history) < room
                /\ currentData' = [rows |-> r.data]
                /\ currentAnalysis' = r.analysis
                /\ resultsShown' = TRUE
                /\ history' = saveAnalysis(history, r.data, r.analysis, now)
                /\ updateHistoryUI(history')
                /\ errorMessage' = [errorMessage EXCEPT !.displayed = FALSE]
    /\ UNCHANGED <<predictInputs, prediction, dialog, now, report>>
    /\ UNCHANGED <<pipeVars, statVars>>

ReaderOnload(i) == ReaderOnloadWithin(i, MaxHistory)

\* resetBtn click
Reset ==
    /\ dialog = ""
    /\ resultsShown' = FALSE
    /\ errorMessage' = [errorMessage EXCEPT !.displayed = FALSE]
    /\ currentData' = Null
    /\ currentAnalysis' = Null
    /\ UNCHANGED <<history, pending, predictInputs, prediction, dialog, now,
                   historyList, report>>
    /\ UNCHANGED <<pipeVars, statVars>>

\* HistoryManager.loadAnalysis(id), from the Load button of a listed entry;
\* displayResults saves again, and stops there if saveAnalysis throws.  The
\* model lets a save happen while the history holds fewer than room entries.
LoadAnalysisWithin(id, room) ==
    /\ dialog = ""
    /\ Includes(historyList, id)
    /\ HasEntry(history, id)
    /\ LET entry == getEntry(history, id)
       IN  /\ currentData' = [rows |-> entry.data]
           /\ currentAnalysis' = entry.analysis
           /\ resultsShown' = TRUE
           /\ IF SaveThrows(entry.analysis)
              THEN UNCHANGED <<history, historyList>>
              ELSE /\ Len(history) < room
                   /\ history' = saveAnalysis(history, entry.data, entry.analysis, now)
                   /\ updateHistoryUI(history')
    /\ UNCHANGED <<pending, errorMessage, predictInputs, prediction, dialog, now, report>>
    /\ UNCHANGED <<pipeVars, statVars>>

LoadAnalysis(id) == LoadAnalysisWithin(id, MaxHistory)

\* HistoryManager.deleteEntry(id), from the Delete button of a listed entry
DeleteEntry(id) ==
    /\ dialog = ""
    /\ Includes(historyList, id)
    /\ history' = SelectSeq(history, LAMBDA entry : entry.id # id)
    /\ updateHistoryUI(history')
    /\ UNCHANGED <<currentData, currentAnalysis, pending, errorMessage, resultsShown,
                   predictInputs, prediction, dialog, now, report>>
    /\ UNCHANGED <<pipeVars, statVars>>

\* HistoryManager.clearAll(): confirm() answers yes or no
ClearAll(confirmed) ==
    /\ dialog = ""
    /\ IF confirmed
       THEN history' = <<>> /\ updateHistoryUI(history')
       ELSE UNCHANGED <<history, historyList>>
    /\ UNCHANGED <<currentData, currentAnalysis, pending, errorMessage, resultsShown,
                   predictInputs, prediction, dialog, now, report>>
    /\ UNCHANGED <<pipeVars, statVars>>

\* the queries typed into #historySearch
Queries == {"", " ", "Data", "zzz"}
\* text.toLowerCase().includes(query.toLowerCase()), on the texts of the model
IncludesIgnoringCase(txt, query) == txt = "Dataset" /\ query = "Data"
\* the filter of searchHistory; a timestamp text holds none of the queries
Matches(entry, query) == IncludesIgnoringCase(entry.fileName, query)

\* historySearch input: searchHistory(query) lists the matching entries, an
\* empty query lists them all
SearchHistory(query) ==
    /\ dialog = ""
    /\ IF Trim(query) # ""
       THEN historyList' = IdsOf(SelectSeq(history, LAMBDA entry : Matches(entry, query)))
       ELSE updateHistoryUI(history)
    /\ UNCHANGED <<currentData, currentAnalysis, history, pending, errorMessage,
                   resultsShown, predictInputs, prediction, dialog, now, report>>
    /\ UNCHANGED <<pipeVars, statVars>>

\* toFixed is called on the six totals, the three correlations and the four
\* numeric cells of every row
ReportThrows(data, analysis) ==
    \/ \E v \in {analysis.totalTVSpend, analysis.totalRadioSpend,
                  analysis.totalSocialSpend, analysis.totalSpend,
                  analysis.totalRevenue, analysis.roi,
                  analysis.correlations.tv, analysis.correlations.radio,
                  analysis.correlations.social} : ToFixedThrows(v)
    \/ \E j \in 1 .. Len(data) :
          \E col \in Range(numericColumns) : ToFixedThrows(Get(data[j], col))

\* reportContent, as the values it prints
ReportOf(data, analysis) ==
    [dataPoints |-> Len(data),
     totalTVSpend |-> ToFixed2(analysis.totalTVSpend),
     totalRadioSpend |-> ToFixed2(analysis.totalRadioSpend),
     totalSocialSpend |-> ToFixed2(analysis.totalSocialSpend),
     totalSpend |-> ToFixed2(analysis.totalSpend),
     totalRevenue |-> ToFixed2(analysis.totalRevenue),
     roi |-> ToFixed2(analysis.roi),
     correlations |->
         [tv |-> ToFixed2(analysis.correlations.tv),
          radio |-> ToFixed2(analysis.correlations.radio),
          social |-> ToFixed2(analysis.correlations.social)],
     rows |->
         [j \in 1 .. Len(data) |->
             [col \in Range(requiredColumns) |->
                 IF col = "Month" THEN Get(data[j], col)
                 ELSE ToFixed2(Get(data[j], col))]]]

\* a downloadReport that formats the analysis where it stands: its roi
\* becomes the text that toFixed(2) gives
DownloadReport_InPlace ==
    /\ dialog = ""
    /\ IF currentData = Null \/ currentAnalysis = Null
       THEN UNCHANGED <<report, currentAnalysis>>
       ELSE IF ReportThrows(currentData.rows, currentAnalysis)
       THEN UNCHANGED <<report, currentAnalysis>>
       ELSE /\ report' = ReportOf(currentData.rows, currentAnalysis)
            /\ currentAnalysis' = [currentAnalysis EXCEPT !.roi = ToFixed2(@)]
    /\ UNCHANGED <<currentData, history, pending, errorMessage,
                   resultsShown, predictInputs, prediction, dialog, now, historyList>>
    /\ UNCHANGED <<pipeVars, statVars>>

\* downloadReport: nothing without a current pair; a toFixed that throws
\* ends it before anything is downloaded
DownloadReport ==
    /\ dialog = ""
    /\ IF currentData = Null \/ currentAnalysis = Null
       THEN UNCHANGED report
       ELSE IF ReportThrows(currentData.rows, currentAnalysis)
       THEN UNCHANGED report
       ELSE report' = ReportOf(currentData.rows, currentAnalysis)
    /\ UNCHANGED <<currentData, currentAnalysis, history, pending, errorMessage,
                   resultsShown, predictInputs, prediction, dialog, now, historyList>>
    /\ UNCHANGED <<pipeVars, statVars>>

\* predictRevenue, with the three fields holding fields
PredictRevenue(fields) ==
    /\ dialog = ""
    /\ predictInputs' = fields
    /\ LET tvSpend == SpendAmount(fields[1])
           radioSpend == SpendAmount(fields[2])
           socialSpend == SpendAmount(fields[3])
       IN  IF currentAnalysis = Null
           THEN UNCHANGED <<prediction, dialog>>
           ELSE IF AllAmountsZero(tvSpend, radioSpend, socialSpend)
           THEN /\ dialog' = NoAmountMessage
                /\ UNCHANGED prediction
           ELSE /\ prediction' =
                      [value |-> ToFixed2(predictedRevenueOf(currentAnalysis, tvSpend,
                                                             radioSpend, socialSpend)),
                       displayed |-> TRUE]
                /\ UNCHANGED dialog
    /\ UNCHANGED <<currentData, currentAnalysis, history, pending, errorMessage,
                   resultsShown, now, historyList, report>>
    /\ UNCHANGED <<pipeVars, statVars>>

\* the user closes the alert
DismissDialog ==
    /\ dialog # ""
    /\ dialog' = ""
    /\ UNCHANGED <<currentData, currentAnalysis, history, pending, errorMessage,
                   resultsShown, predictInputs, prediction, now, historyList, report>>
    /\ UNCHANGED <<pipeVars, statVars>>

\* time passes: Date.now() grows
Tick ==
    /\ now < MaxClock
    /\ now' = now + 1
    /\ UNCHANGED <<currentData, currentAnalysis, history, pending, errorMessage,
                   resultsShown, predictInputs, prediction, dialog, historyList, report>>
    /\ UNCHANGED <<pipeVars, statVars>>

Init == SysInit /\ PipeIdle /\ StatIdle

Next ==
    \/ \E file \in Files : HandleFileUpload(file)
    \/ \E i \in 1 .. MaxPending : ReaderOnload(i)
    \/ Reset
    \/ \E id \in 0 .. MaxClock : LoadAnalysis(id)
    \/ \E id \in 0 .. MaxClock : DeleteEntry(id)
    \/ \E confirmed \in BOOLEAN : ClearAll(confirmed)
    \/ \E fields \in PredictFieldValues : PredictRevenue(fields)
    \/ \E query \in Queries : SearchHistory(query)
    \/ DownloadReport
    \/ DismissDialog
    \/ Tick

Spec == Init /\ [][Next]_vars

\* the page with the clock standing still and the history only growing: the
\* handlers that set the current analysis, and the prediction
PredictNext ==
    \/ \E file \in Files : HandleFileUpload(file)
    \/ \E i \in 1 .. MaxPending : ReaderOnload(i)
    \/ Reset
    \/ \E id \in 0 .. MaxClock : LoadAnalysis(id)
    \/ \E fields \in PredictFieldValues : PredictRevenue(fields)
    \/ DismissDialog

SpecPredict == Init /\ [][PredictNext]_vars

\* the files whose read ends in an installed analysis
AcceptedFiles == {file \in Files : file.csv /\ ~Analyzed[file.content].threw}

\* the page with the clock standing still and every upload accepted: all the
\* handlers that read or replace the current dataset and analysis
FrameNext ==
    \/ \E file \in AcceptedFiles : HandleFileUpload(file)
    \/ \E i \in 1 .. MaxPending : ReaderOnload(i)
    \/ Reset
    \/ \E id \in 0 .. MaxClock : LoadAnalysis(id)
    \/ \E id \in 0 .. MaxClock : DeleteEntry(id)
    \/ \E confirmed \in BOOLEAN : ClearAll(confirmed)
    \/ \E fields \in PredictFieldValues : PredictRevenue(fields)
    \/ \E query \in Queries : SearchHistory(query)
    \/ DownloadReport
    \/ DismissDialog

SpecFrame == Init /\ [][FrameNext]_vars

\* in the history's own specification a save may act on a full history
HistoryRoom == maxEntries + 1

\* the history operations from an empty history, with one accepted file as
\* the source of what is saved: saveAnalysis (by a completed upload or by a
\* load), loadAnalysis, deleteEntry, clearAll, and the clock that gives ids
HistoryNext ==
    \/ HandleFileUpload([csv |-> TRUE, content |-> DatasetA])
    \/ \E i \in 1 .. MaxPending : ReaderOnloadWithin(i, HistoryRoom)
    \/ \E id \in 0 .. MaxClock : LoadAnalysisWithin(id, HistoryRoom)
    \/ \E id \in 0 .. MaxClock : DeleteEntry(id)
    \/ \E confirmed \in BOOLEAN : ClearAll(confirmed)
    \/ Tick

SpecHistory == Init /\ [][HistoryNext]_vars

(***************************************************************************)
(* The statistical functions on their own: series of numbers as            *)
(* analyzeData hands them over (script.js:332-341), "Infinity" cells       *)
(* included, since parseCSV and validateData let them through.             *)
(***************************************************************************)
MaxSeries == 3

SeriesValues == {Num(0), Num(1), PosInf}
SeriesOf(n) == [1 .. n -> SeriesValues]
\* one feature series and a target series of the same length
PairSamples ==
    UNION {{[features |-> <<x>>, target |-> y] : x \in SeriesOf(n), y \in SeriesOf(n)} :
              n \in 1 .. MaxSeries}
FeatureChoices ==
    { <<Num(1), Num(1), Num(1)>>, <<Num(0), Num(1), Num(3)>>, <<Num(3), Num(1), Num(0)>>,
      <<Num(1), Num(0), Num(1)>>, <<Num(1), PosInf, Num(3)>> }
TargetChoices ==
    { <<Num(0), Num(1), Num(3)>>, <<Num(3), Num(3), Num(3)>>, <<Num(1), Num(3), Num(1)>> }
\* the three spend series and the sales series
TripleSamples ==
    {[features |-> <<tv, radio, social>>, target |-> sales] :
        tv \in FeatureChoices, radio \in FeatureChoices, social \in FeatureChoices,
        sales \in TargetChoices}

StatInit ==
    /\ SysInit
    /\ PipeIdle
    /\ samples \in PairSamples \cup TripleSamples
    /\ fitted = Null

\* the calls of script.js:332-341 on the series
FitStep ==
    /\ fitted = Null
    /\ fitted' =
           [correlations |->
                [i \in 1 .. Len(samples.features) |->
                    calculateCorrelation(samples.features[i], samples.target)],
            regressions |->
                [i \in 1 .. Len(samples.features) |->
                    linearRegression(samples.features[i], samples.target)],
            multipleRegression |->
                multipleLinearRegression(samples.features, samples.target)]
    /\ UNCHANGED <<samples, sysVars, pipeVars>>

StatNext == FitStep

SpecStats == StatInit /\ [][StatNext]_vars

(***************************************************************************)
(* Properties of parsing, validation and the totals (SpecPipeline).        *)
(***************************************************************************)
Validated == stage \in {"validated", "analyzed"}

\* what the input text holds, read off the text itself
FirstNonBlank(txt) ==
    IF \A k \in 1 .. Len(txt) : IsBlankLine(txt[k]) THEN 0
    ELSE CHOOSE k \in 1 .. Len(txt) :
            ~IsBlankLine(txt[k]) /\ \A m \in 1 .. (k - 1) : IsBlankLine(txt[m])
DataLines(txt) ==
    IF FirstNonBlank(txt) = 0 THEN <<>>
    ELSE SelectSeq(SubSeq(txt, FirstNonBlank(txt) + 1, Len(txt)),
                   LAMBDA l : ~IsBlankLine(l))
HeaderNames(txt) ==
    IF FirstNonBlank(txt) = 0 THEN {""}
    ELSE {Trim(txt[FirstNonBlank(txt)][j]) : j \in 1 .. Len(txt[FirstNonBlank(txt)])}
\* the position of column col in the header line (its last, if repeated)
ColumnAt(txt, col) ==
    LET h == txt[FirstNonBlank(txt)]
    IN  CHOOSE j \in 1 .. Len(h) :
            Trim(h[j]) = col /\ \A k \in (j + 1) .. Len(h) : Trim(h[k]) # col
AllRequiredPresent(txt) == \A c \in Range(requiredColumns) : c \in HeaderNames(txt)
CellMissing(txt, i, col) == ColumnAt(txt, col) > Len(DataLines(txt)[i])
RawCell(txt, i, col) == Trim(DataLines(txt)[i][ColumnAt(txt, col)])

AbsentColumns(headers) ==
    {c \in Range(requiredColumns) : \A j \in 1 .. Len(headers) : headers[j] # c}
MissingMessages ==
    {"Missing required columns: " \o Join(m, ", ") :
        m \in SubSeqsOf(requiredColumns) \ {<<>>}}
MinimumRowsMessage == "Minimum 3 rows of data required for analysis"
HasInvalidNumericCell(data) ==
    \E i \in 1 .. Len(data) : \E c \in Range(numericColumns) :
        Get(data[i], c).t \notin {"num", "inf", "ninf"}

\* C1: validateData checks the required columns first, then the row count,
\* then the numeric values: with a required column absent it throws the
\* missing-columns error whatever the rows are, and with every column
\* present and fewer than 3 rows it throws the minimum-rows error even when
\* a row holds a non-numeric value.
C1_ValidationOrder ==
    Validated =>
        /\ AbsentColumns(parsed.headers) # {} =>
              verdict.threw /\ verdict.message \in MissingMessages
        /\ (AbsentColumns(parsed.headers) = {} /\ Len(parsed.data) < 3) =>
              verdict = Thrown(MinimumRowsMessage)

C1_Witness ==
    /\ Validated
    /\ AbsentColumns(parsed.headers) = {}
    /\ Len(parsed.data) = 2
    /\ HasInvalidNumericCell(parsed.data)
    /\ verdict = Thrown(MinimumRowsMessage)

\* C2 (as claimed): with every required column present and at least 3 rows,
\* the first offending cell in row-major order (non-numeric text, an empty
\* cell or a missing cell) makes validation throw the invalid-numeric error
\* naming that cell's column and its raw text as it stands in the CSV (a
\* missing cell, which has no text, is allowed to read "undefined").
RawOffending(txt, i, col) ==
    \/ CellMissing(txt, i, col)
    \/ StringToNumber(RawCell(txt, i, col)).t = "nan"
    \/ RawCell(txt, i, col) = ""
RawShown(txt, i, col) ==
    IF CellMissing(txt, i, col) THEN "undefined" ELSE RawCell(txt, i, col)
FirstRawOffending(txt) ==
    LET off == {p \in (1 .. Len(DataLines(txt))) \X (1 .. 4) :
                    RawOffending(txt, p[1], numericColumns[p[2]])}
    IN  CHOOSE p \in off :
            \A q \in off : p[1] < q[1] \/ (p[1] = q[1] /\ p[2] <= q[2])
HasRawOffending(txt) ==
    \E i \in 1 .. Len(DataLines(txt)) : \E c \in Range(numericColumns) :
        RawOffending(txt, i, c)
C2_FirstOffendingRawValue ==
    (/\ Validated
     /\ AllRequiredPresent(text)
     /\ Len(DataLines(text)) >= 3
     /\ HasRawOffending(text)) =>
        LET p == FirstRawOffending(text)
        IN  verdict = Thrown("Invalid numeric value in " \o numericColumns[p[2]]
                             \o ": " \o RawShown(text, p[1], numericColumns[p[2]]))

\* C3: the missing-columns error lists exactly the required columns absent
\* from the headers (exact, case-sensitive match), in the required order,
\* and is thrown if and only if some required column is absent.
RECURSIVE AbsentList(_, _)
AbsentList(headers, k) ==
    IF k > Len(requiredColumns) THEN ""
    ELSE LET rest == AbsentList(headers, k + 1)
         IN  IF requiredColumns[k] \notin AbsentColumns(headers) THEN rest
             ELSE IF rest = "" THEN requiredColumns[k]
             ELSE requiredColumns[k] \o ", " \o rest
C3_MissingColumnsExact ==
    Validated =>
        IF AbsentColumns(parsed.headers) # {}
        THEN verdict = Thrown("Missing required columns: " \o AbsentList(parsed.headers, 1))
        ELSE verdict.message \notin MissingMessages

C3_Witness ==
    /\ Validated
    /\ parsed.headers = LowerCaseHeader
    /\ verdict = Thrown("Missing required columns: Month")

\* C5 (as claimed): a CSV with an empty cell in any of the five required
\* columns, Month included, in any data row is rejected by validation, so
\* no analysis is made of it.
HasEmptyRequiredCell(txt) ==
    /\ AllRequiredPresent(txt)
    /\ \E i \in 1 .. Len(DataLines(txt)) : \E c \in Range(requiredColumns) :
          ~CellMissing(txt, i, c) /\ RawCell(txt, i, c) = ""
C5_EmptyCellRejected ==
    (Validated /\ HasEmptyRequiredCell(text)) => (verdict.threw /\ stage # "analyzed")

\* C6: parseCSV returns one row per non-blank line after the header line,
\* in line order, the i-th row built from the i-th such line; only blank
\* lines are dropped.
Parsed == stage \in {"parsed", "validated", "analyzed"}
C6_RowsAreNonBlankLines ==
    Parsed =>
        /\ Len(parsed.data) = Len(DataLines(text))
        /\ \A i \in 1 .. Len(parsed.data) :
              parsed.data[i] = ParseRow(parsed.headers, DataLines(text)[i])

C6_Witness ==
    /\ Parsed
    /\ Len(text) = 4
    /\ IsBlankLine(text[3])
    /\ ~IsBlankLine(text[2]) /\ ~IsBlankLine(text[4])
    /\ Len(parsed.data) = 2
    /\ parsed.data[2] = ParseRow(parsed.headers, text[4])

\* C7 (as claimed): roi = (totalRevenue - totalSpend) / totalSpend * 100
\* whenever totalSpend is not 0, and roi = 0 when totalSpend is 0 (read
\* here for the datasets whose totals are finite).
RoiFormula(s) == Mul(Div(Sub(s.totalRevenue, s.totalSpend), s.totalSpend), Num(100))
RECURSIVE ColumnSum(_, _)
ColumnSum(data, col) ==
    IF data = <<>> THEN Num(0)
    ELSE Add(data[1][col], ColumnSum(Tail(data), col))
TotalsAreSums ==
    /\ summary.totalTVSpend = ColumnSum(parsed.data, "TV_Spend")
    /\ summary.totalRadioSpend = ColumnSum(parsed.data, "Radio_Spend")
    /\ summary.totalSocialSpend = ColumnSum(parsed.data, "SocialMedia_Spend")
    /\ summary.totalRevenue = ColumnSum(parsed.data, "Sales_Revenue")
    /\ summary.totalSpend =
          Add(summary.totalTVSpend,
              Add(summary.totalRadioSpend, summary.totalSocialSpend))
C8_TotalsAsClaimed ==
    stage = "analyzed" =>
        /\ TotalsAreSums
        /\ text = ReadmeText =>
              /\ summary.totalTVSpend = Num(28500)
              /\ summary.totalRadioSpend = Num(16200)
              /\ summary.totalSocialSpend = Num(13600)
              /\ summary.totalSpend = Num(58300)
              /\ summary.totalRevenue = Num(84000)

\* C8 (amended): the same sums; the README's five rows give totalTVSpend
\* 28500, totalRadioSpend 16200, totalSocialSpend 12600, totalSpend 57300
\* and totalRevenue 84000.
C8_Totals ==
    stage = "analyzed" =>
        /\ TotalsAreSums
        /\ text = ReadmeText =>
              /\ summary.totalTVSpend = Num(28500)
              /\ summary.totalRadioSpend = Num(16200)
              /\ summary.totalSocialSpend = Num(12600)
              /\ summary.totalSpend = Num(57300)
              /\ summary.totalRevenue = Num(84000)

C8_Witness ==
    /\ stage = "analyzed"
    /\ text = ReadmeText
    /\ Len(parsed.data) = 5
    /\ summary.totalSocialSpend = Num(12600)
    /\ summary.totalSpend = Num(57300)

(***************************************************************************)
(* Properties of the page (Spec) and of the prediction (SpecPredict).      *)
(***************************************************************************)
CurrentRows == currentData.rows

\* C4: whenever a current Dataset exists it has at least 3 rows, every row
\* exposes every header key, and each of TV_Spend, Radio_Spend,
\* SocialMedia_Spend and Sales_Revenue is a finite number in every row
C4_DatasetInvariant ==
    currentData # Null =>
        /\ Len(CurrentRows) >= MinimumRows
        /\ \A i \in 1 .. Len(CurrentRows) :
              /\ \A key \in Range(HeaderRow) : key \in DOMAIN CurrentRows[i]
              /\ \A key \in Range(numericColumns) : IsFinite(Get(CurrentRows[i], key))

\* an input counts as 0 when it is absent or unparseable
AmountOf(raw) ==
    LET typed == JSparseFloat(Str(raw))
    IN  IF typed.t = "nan" THEN Num(0) ELSE typed
NoAmount(fields) == \A j \in 1 .. 3 : AmountOf(fields[j]) = Num(0)

\* mean(sales) + the sum over the three features of slope * input * normalizedWeight
WeightedSum(analysis, fields) ==
    LET mr == analysis.multipleRegression
        term(j) == Mul(Mul(mr[j].slope, AmountOf(fields[j])), mr[j].normalizedWeight)
    IN  Add(calculateMean(analysis.sales), Add(Add(term(1), term(2)), term(3)))

\* C9: whenever predictRevenue produces a prediction its value is
\* max(0, mean(sales) + sum of slope * input * normalizedWeight), shown to two
\* decimals, and so it is never below 0
C9_PredictionIsClampedSum ==
    [][\A fields \in PredictFieldValues :
          (PredictRevenue(fields) /\ currentAnalysis # Null /\ ~NoAmount(fields)) =>
              /\ prediction'.displayed
              /\ prediction'.value =
                     ToFixed2(MathMax(Num(0), WeightedSum(currentAnalysis, fields)))
              /\ ~Lt(prediction'.value, Num(0))]_vars

\* a prediction of 0 is on display for inputs whose weighted sum is negative
C9_Witness ==
    /\ currentAnalysis # Null
    /\ prediction.displayed
    /\ predictInputs = <<"50", "", "">>
    /\ Lt(WeightedSum(currentAnalysis, predictInputs), Num(0))
    /\ prediction.value = Num(0)

PredictionFrame == UNCHANGED <<prediction, currentData, currentAnalysis, history>>
Signalled == dialog' = NoAmountMessage /\ PredictionFrame
Produced == prediction'.displayed /\ prediction'.value # Null /\ dialog' = dialog

\* C10 as stated: amounts that are all 0 are always signalled as a user-input
\* error with the prediction, the current pair and the history left alone,
\* and any nonzero amount always produces a prediction
C10_ZeroAmountsAlwaysSignalled ==
    [][\A fields \in PredictFieldValues :
          PredictRevenue(fields) =>
              IF NoAmount(fields) THEN Signalled ELSE Produced]_vars

\* C10: while a current AnalysisResult exists, amounts that are all 0 (absent
\* and unparseable inputs counting as 0) are signalled as a user-input error
\* with the prediction, the current pair and the history left alone, and any
\* nonzero amount produces a prediction; with no current AnalysisResult
\* predictRevenue signals nothing and produces nothing
C10_ZeroAmountsSignalledWithAnalysis ==
    [][\A fields \in PredictFieldValues :
          PredictRevenue(fields) =>
              IF currentAnalysis = Null THEN dialog' = dialog /\ PredictionFrame
              ELSE IF NoAmount(fields) THEN Signalled
              ELSE Produced]_vars

\* the error is signalled for "0", "abc" and an empty field, over a prediction
\* already on display
C10_Witness ==
    /\ currentAnalysis # Null
    /\ predictInputs = <<"0", "abc", "">>
    /\ dialog = NoAmountMessage
    /\ prediction.displayed

(***************************************************************************)
(* Properties of the statistical functions (SpecStats).                    *)
(***************************************************************************)
Fitted == fitted # Null
Sum3(f) == Add(Add(f[1], f[2]), f[3])
WeightsOf(mr) == [i \in 1 .. 3 |-> mr[i].weight]
NormalizedWeightsOf(mr) == [i \in 1 .. 3 |-> mr[i].normalizedWeight]

\* C11: of the three FeatureWeights (TV, Radio, Social) each weight is
\* |correlation|; when some correlation is not 0 each normalizedWeight is
\* weight / (sum of the three weights) and the normalizedWeights sum to 1;
\* when all three correlations are 0 every normalizedWeight is 0
C11_WeightsNormalized ==
    (Fitted /\ Len(samples.features) = 3) =>
        /\ \A i \in 1 .. 3 :
              /\ fitted.multipleRegression[i].correlation = fitted.correlations[i]
              /\ fitted.multipleRegression[i].weight = MathAbs(fitted.correlations[i])
        /\ IF \E i \in 1 .. 3 : fitted.correlations[i] # Num(0)
           THEN /\ \A i \in 1 .. 3 :
                     fitted.multipleRegression[i].normalizedWeight =
                         Div(fitted.multipleRegression[i].weight,
                             Sum3(WeightsOf(fitted.multipleRegression)))
                /\ Sum3(NormalizedWeightsOf(fitted.multipleRegression)) = Num(1)
           ELSE \A i \in 1 .. 3 :
                    fitted.multipleRegression[i].normalizedWeight = Num(0)

IsConstantSeries(series) ==
    \A i \in 1 .. Len(series) : \A j \in 1 .. Len(series) : series[i] = series[j]

\* C12: calculateCorrelation(x, y) is exactly 0 whenever x or y is a constant
\* series, and linearRegression(x, y) has slope 0 and intercept mean(y)
\* whenever x is a constant series
C12_ZeroVarianceDefined ==
    Fitted =>
        \A i \in 1 .. Len(samples.features) :
            /\ (IsConstantSeries(samples.features[i]) \/ IsConstantSeries(samples.target))
                  => fitted.correlations[i] = Num(0)
            /\ IsConstantSeries(samples.features[i])
                  => /\ fitted.regressions[i].slope = Num(0)
                     /\ fitted.regressions[i].intercept = calculateMean(samples.target)

(***************************************************************************)
(* Properties of the current pair and of the handlers (Spec, SpecPredict). *)
(***************************************************************************)
\* C13: the current Dataset and the current AnalysisResult are both absent,
\* or both present with the AnalysisResult being the one analyzeData
\* computes from exactly that Dataset
C13_ConsistentPair ==
    /\ (currentData = Null) <=> (currentAnalysis = Null)
    /\ currentData # Null => currentAnalysis = analyzeData(CurrentRows)

\* C14: from the moment an upload is accepted until its result is installed
\* or its error is shown no other event handler runs: while a read is in
\* flight the only step that changes the page is the delivery of a result
C14_CycleNotInterleaved ==
    [][pending # <<>> =>
          \/ Len(pending') < Len(pending)
          \/ UNCHANGED <<currentData, currentAnalysis, history, pending, errorMessage,
                         resultsShown, predictInputs, prediction, dialog>>]_vars

(***************************************************************************)
(* C15.  A file whose parse or validation throws.                         *)
(***************************************************************************)
InvalidTVSpendMessage == "Invalid numeric value in TV_Spend: abc"

\* the step in which the i-th read completes with content that is rejected
FailedOnloadStep(i) ==
    /\ i \in 1 .. Len(pending)
    /\ Analyzed[pending[i]].threw
    /\ pending' = RemoveAt(pending, i)

\* C15: when the read of an upload completes and its parse or validation
\* throws, the error element shows exactly the thrown message (for the file
\* with the cell abc under TV_Spend: "Invalid numeric value in TV_Spend:
\* abc"), the read is gone from the pending ones and is not queued again, and
\* the current dataset and analysis, the stored history and its list, the
\* results section, the prediction and the report are as they were
C15_FailedUploadOnlyShowsError ==
    [][\A i \in 1 .. Len(pending) :
          FailedOnloadStep(i) =>
              /\ errorMessage' = [textContent |-> Analyzed[pending[i]].message,
                                  displayed |-> TRUE]
              /\ pending[i] = DatasetBad =>
                     errorMessage'.textContent = InvalidTVSpendMessage
              /\ Len(pending') = Len(pending) - 1
              /\ UNCHANGED <<currentData, currentAnalysis, history, historyList,
                             resultsShown, predictInputs, prediction, report,
                             dialog, now>>]_vars

\* the rejected file's message is shown over an analysis that an earlier
\* upload produced and saved
C15_Witness ==
    /\ errorMessage = [textContent |-> InvalidTVSpendMessage, displayed |-> TRUE]
    /\ pending = <<>>
    /\ currentData # Null
    /\ currentAnalysis # Null
    /\ Len(history) = 1

(***************************************************************************)
(* C16.  The current dataset and analysis are replaced, never edited.     *)
(***************************************************************************)
CurrentPair == <<currentData, currentAnalysis>>

\* a read completes and installs the parsed rows and their analysis
ReplacedByUpload ==
    \E i \in 1 .. Len(pending) :
        /\ ~Analyzed[pending[i]].threw
        /\ pending' = RemoveAt(pending, i)
        /\ currentData' = [rows |-> Analyzed[pending[i]].data]
        /\ currentAnalysis' = Analyzed[pending[i]].analysis
\* a listed entry is loaded and installs its stored data and analysis
ReplacedByLoad ==
    \E j \in 1 .. Len(history) :
        /\ Includes(historyList, history[j].id)
        /\ currentData' = [rows |-> history[j].data]
        /\ currentAnalysis' = history[j].analysis
        /\ UNCHANGED pending
\* the reset button clears both and hides the results
ClearedByReset ==
    /\ currentData' = Null
    /\ currentAnalysis' = Null
    /\ resultsShown' = FALSE
    /\ UNCHANGED <<history, historyList, pending, prediction, report>>

\* C16: every step that changes the current dataset or analysis is a
\* completed upload installing the freshly parsed rows and their analysis
\* (displayResults and saveAnalysis, which run in that step, leave them as
\* installed), a history load installing the entry's stored pair, or a reset
\* setting both to null; predictRevenue, downloadReport, deleteEntry,
\* clearAll and searchHistory leave both exactly as they were
C16_PairChangesOnlyWholesale ==
    [][/\ CurrentPair' # CurrentPair =>
              ReplacedByUpload \/ ReplacedByLoad \/ ClearedByReset
       /\ (\E fields \in PredictFieldValues : PredictRevenue(fields)) =>
              UNCHANGED CurrentPair
       /\ DownloadReport => UNCHANGED CurrentPair
       /\ (\E id \in 0 .. MaxClock : DeleteEntry(id)) => UNCHANGED CurrentPair
       /\ (\E confirmed \in BOOLEAN : ClearAll(confirmed)) => UNCHANGED CurrentPair
       /\ (\E query \in Queries : SearchHistory(query)) => UNCHANGED CurrentPair]_vars

\* the pair an upload installed is still exactly that after a prediction was
\* shown, a report was downloaded and its history entry was deleted
C16_Witness ==
    /\ currentData = [rows |-> Analyzed[DatasetA].data]
    /\ currentAnalysis = Analyzed[DatasetA].analysis
    /\ prediction.displayed
    /\ report = ReportOf(Analyzed[DatasetA].data, Analyzed[DatasetA].analysis)
    /\ history = <<>>
    /\ historyList = <<>>
    /\ pending = <<>>

(***************************************************************************)
(* C17.  The stored history: at most maxEntries entries, newest first.     *)
(***************************************************************************)
\* no entry is older than one behind it
NewestFirst(h) == \A j, k \in 1 .. Len(h) : j < k => h[j].id >= h[k].id

\* a step that calls saveAnalysis: a completed upload or a load
SaveStep ==
    \/ \E i \in 1 .. MaxPending : ReaderOnloadWithin(i, HistoryRoom)
    \/ \E id \in 0 .. MaxClock : LoadAnalysisWithin(id, HistoryRoom)

\* C17: from an empty history, whatever saves, loads, deletions and clearings
\* happen, the stored history never holds more than 20 entries and no entry
\* is older than one behind it; a save onto 20 entries leaves 20: the new
\* entry, made now from the current rows, followed by the first 19 of the
\* old ones in their order, the last one being dropped
C17_HistoryBoundedNewestFirst ==
    [][/\ Len(history') <= maxEntries
       /\ NewestFirst(history')
       /\ (SaveStep /\ Len(history) = maxEntries) =>
              /\ Len(history') = maxEntries
              /\ history'[1] = NewEntry(currentData'.rows, currentAnalysis', now)
              /\ SubSeq(history', 2, maxEntries) = SubSeq(history, 1, maxEntries - 1)]_vars

\* a full history whose entries were saved at different times
C17_Witness ==
    /\ Len(history) = maxEntries
    /\ history[1].id > history[maxEntries].id
    /\ historyList = IdsOf(history)
    /\ currentData # Null

(***************************************************************************)
(* C18.  loadAnalysis and the entry its displayResults saves.             *)
(***************************************************************************)
\* the length after one more save
LengthAfterSave(h) == IF Len(h) < maxEntries THEN Len(h) + 1 ELSE maxEntries

\* C18: every load of a listed entry installs that entry's data and analysis
\* as the current pair and stores one further entry with the same data in
\* front of the others, so the history is one longer (or, at 20 entries,
\* has lost its last one)
C18_LoadPrependsEntry ==
    [][\A id \in 0 .. MaxClock :
          LoadAnalysis(id) =>
              /\ currentData' = [rows |-> getEntry(history, id).data]
              /\ currentAnalysis' = getEntry(history, id).analysis
              /\ Len(history') = LengthAfterSave(history)
              /\ history'[1].data = getEntry(history, id).data
              /\ SubSeq(history', 2, Len(history')) =
                     SubSeq(history, 1, Len(history') - 1)]_vars

====
